---- MODULE Spec2Model ----
(***************************************************************************)
(* Garden planner (samwise41/Garden): the App component's state, its       *)
(* effects and handlers, and the GitHub catalog append of githubSync.js.   *)
(*                                                                         *)
(* Numbers.  JavaScript numbers are modelled exactly: a horizontal         *)
(* position (the x of a placed plant, inchesX) is held as the number of    *)
(* HALF inches, so that `inchesX += plant.spacing / 2` stays exact for an  *)
(* odd spacing.  A spacing, a pixel offset and a lane are held as written. *)
(* A position is a whole number of inches iff its value here is even.      *)
(*                                                                         *)
(* Strings.  An icon is the sequence of its UTF-16 code units; a JSON text *)
(* is the sequence of its tokens.                                          *)
(***************************************************************************)
EXTENDS Integers, Sequences, FiniteSets, TLC

VARIABLES
    plants,         \* useState([]) of line 66: the in-memory catalog
    layout,         \* useState([]) of line 67: the placed plants
    showSettings,   \* useState(false) of line 68
    garden_layout,  \* localStorage item 'garden_layout' (NoItem: absent)
    gh_token,       \* localStorage item 'gh_token' (Null: absent)
    mounted,        \* the App's first commit has run its effects
    effectPending,  \* the [layout] effect of lines 84-86 is scheduled
    fetchState,     \* the fetch('/plants.json') promise chain of lines 72-75
    saves,          \* the handleAddPlant calls, each with its closure
    remote,         \* public/plants.json in the GitHub repository
    readers,        \* FileReaders whose onload is still to come
    nextUuid,       \* how many crypto.randomUUID() values were drawn
    last            \* the handler that ran last, with its locals and alert

vars == <<plants, layout, showSettings, garden_layout, gh_token, mounted,
          effectPending, fetchState, saves, remote, readers, nextUuid, last>>

(***************************************************************************)
(* Bounds of the model.                                                    *)
(***************************************************************************)
MaxDrops == 2
MaxSaves == 2
MaxReaders == 1
MaxCommits == 1

(***************************************************************************)
(* Program constants.                                                      *)
(***************************************************************************)
pxPerInch == 10
bedHeight == 200

Range(s) == {s[k] : k \in 1..Len(s)}
Abs(n) == IF n < 0 THEN 0 - n ELSE n
Max(a, b) == IF a >= b THEN a ELSE b

\* Math.round(n / d) for d > 0: the nearest integer, a tie going up.
MathRound(n, d) == (2 * n + d) \div (2 * d)

\* `if (saved)`: a missing item (null) and the empty text are falsy.
NoItem == <<>>
TruthyText(t) == t # NoItem

\* `if (!token)`, `if (!name)`: null and "" are falsy.
Null == "<null>"

\* Mutant: only null taken for a missing value (token === null).
TruthyNotNull(s) == s # Null

Truthy(s) == s # Null /\ s # ""

(***************************************************************************)
(* Plant definitions.  The icon of the definition handleAddPlant builds is *)
(* the literal of line 175, whose characters are U+00F0 U+0178 U+0152      *)
(* U+00B1.  The definitions served as /plants.json are read by res.json(), *)
(* which decodes UTF-8; the same file read through atob() is a string of   *)
(* bytes.                                                                  *)
(***************************************************************************)
NewPlantIcon == <<240, 376, 338, 177>>
SeedlingUtf16 == <<55356, 57137>>
SeedlingBytes == <<240, 159, 140, 177>>

Def(id, name, spacing, rows, stagger, icon) ==
    [id |-> id, name |-> name, spacing |-> spacing, rows |-> rows,
     stagger |-> stagger, icon |-> icon]

\* /plants.json as deployed: the data of `.then(data => setPlants(data))`.
BootCatalog ==
    << Def("tomato", "Tomato", 12, 2, TRUE, SeedlingUtf16),
       Def("carrot", "Carrot", 3, 1, TRUE, SeedlingUtf16),
       Def("basil", "Basil", 9, 2, TRUE, SeedlingUtf16),
       Def("squash", "Squash", 12, 2, FALSE, SeedlingUtf16) >>

\* The same document as atob(getData.content) yields it.
AsBytes(p) == [p EXCEPT !.icon = SeedlingBytes]
RemoteCatalog == [k \in 1..Len(BootCatalog) |-> AsBytes(BootCatalog[k])]

\* name.toLowerCase()
ToLowerCase(name) ==
    CASE name = "Kale" -> "kale"
      [] name = "Tomato" -> "tomato"
      [] OTHER -> name

(***************************************************************************)
(* JSON texts of layouts: JSON.stringify and JSON.parse.                   *)
(***************************************************************************)
Punct(s) == [k |-> "punct", s |-> s, n |-> 0]
Str(s)   == [k |-> "str", s |-> s, n |-> 0]
Num(n)   == [k |-> "num", s |-> "", n |-> n]

StringifyEntry(e) ==
    << Punct("{"), Str(e.uuid), Str(e.plantId), Num(e.x), Num(e.lane), Punct("}") >>

RECURSIVE StringifyEntries(_)
StringifyEntries(l) ==
    IF l = <<>> THEN <<>>
    ELSE StringifyEntry(Head(l)) \o StringifyEntries(Tail(l))

\* JSON.stringify(layout)
JSONstringify(l) == <<Punct("[")>> \o StringifyEntries(l) \o <<Punct("]")>>

EntryOk(t, b) ==
    /\ t[b + 1] = Punct("{")
    /\ t[b + 2].k = "str"
    /\ t[b + 3].k = "str"
    /\ t[b + 4].k = "num"
    /\ t[b + 5].k = "num"
    /\ t[b + 6] = Punct("}")

ParseEntry(t, b) ==
    [uuid |-> t[b + 2].s, plantId |-> t[b + 3].s, x |-> t[b + 4].n, lane |-> t[b + 5].n]

\* Mutant: a parser that yields the empty array for a text it cannot read.
JSONparseLenient(t) ==
    LET n == Len(t) IN
    IF /\ n >= 2
       /\ t[1] = Punct("[")
       /\ t[n] = Punct("]")
       /\ (n - 2) % 6 = 0
       /\ \A g \in 0..((n - 2) \div 6 - 1) : EntryOk(t, 1 + 6 * g)
    THEN [ok |-> TRUE, val |-> [g \in 1..((n - 2) \div 6) |-> ParseEntry(t, 1 + 6 * (g - 1))]]
    ELSE [ok |-> TRUE, val |-> <<>>]

\* JSON.parse(text): ok = FALSE stands for the SyntaxError it throws.
JSONparse(t) ==
    LET n == Len(t) IN
    IF /\ n >= 2
       /\ t[1] = Punct("[")
       /\ t[n] = Punct("]")
       /\ (n - 2) % 6 = 0
       /\ \A g \in 0..((n - 2) \div 6 - 1) : EntryOk(t, 1 + 6 * g)
    THEN [ok |-> TRUE, val |-> [g \in 1..((n - 2) \div 6) |-> ParseEntry(t, 1 + 6 * (g - 1))]]
    ELSE [ok |-> FALSE, val |-> <<>>]

(***************************************************************************)
(* Placement: the arithmetic of handleDragEnd, lines 99-124.               *)
(***************************************************************************)
\* let inchesX = Math.max(0, Math.round(dropX / pxPerInch)), in half inches
InchesX(dropX) == 2 * Max(0, MathRound(dropX, pxPerInch))

\* let lane = dropY < (bedHeight / 2) ? 0 : 1
Lane(dropY) == IF 2 * dropY < bedHeight THEN 0 ELSE 1

\* layout.filter(p => p.lane === 0 && Math.abs(p.x - inchesX) < plant.spacing)
Neighbors(l, plant, inchesX) ==
    SelectSeq(l, LAMBDA p : p.lane = 0 /\ Abs(p.x - inchesX) < 2 * plant.spacing)

\* Mutant: the offset added once for every neighbour found.
StaggerPerNeighbor(l, plant, inchesX, lane) ==
    IF plant.stagger /\ lane = 1
    THEN inchesX + Len(Neighbors(l, plant, inchesX)) * plant.spacing
    ELSE inchesX

\* The stagger block: inchesX += plant.spacing / 2 when a neighbour exists.
Stagger(l, plant, inchesX, lane) ==
    IF plant.stagger /\ lane = 1 /\ Len(Neighbors(l, plant, inchesX)) > 0
    THEN inchesX + plant.spacing
    ELSE inchesX

\* Mutant: the lane stored as dropped, whatever the row count.
StoredLaneAsDropped(plant, lane) == lane

\* lane: plant.rows === 1 ? 0 : lane
StoredLane(plant, lane) == IF plant.rows = 1 THEN 0 ELSE lane

\* crypto.randomUUID(): a value no earlier call returned.
UuidOf(n) == <<"u1", "u2", "u3", "u4">>[n]

NewPlacedPlant(l, plant, dropX, dropY, uuid) ==
    [uuid |-> uuid,
     plantId |-> plant.id,
     x |-> Stagger(l, plant, InchesX(dropX), Lane(dropY)),
     lane |-> StoredLane(plant, Lane(dropY))]

\* Mutant: the comparison inverted (=== for !==).
RemoveKeepMatch(l, uuid) == SelectSeq(l, LAMBDA e : e.uuid = uuid)

\* layout.filter(l => l.uuid !== uuid)
RemoveFilter(l, uuid) == SelectSeq(l, LAMBDA e : e.uuid # uuid)

(***************************************************************************)
(* Inputs.                                                                 *)
(***************************************************************************)
Entry(uuid, plantId, x, lane) == [uuid |-> uuid, plantId |-> plantId, x |-> x, lane |-> lane]

\* Pixel offsets of a drop relative to the bed: left of it (-3 in), 14.5 in.
DropXs == {-30, 145}
DropYs == {99, 100}

\* What an earlier session may have left in localStorage.
SavedLayout == << Entry("s1", "tomato", 20, 0) >>
SavedTexts == {NoItem, JSONstringify(SavedLayout)}

\* Files the user may pick for import.
FileLayout == << Entry("f1", "tomato", 20, 0), Entry("f2", "gone", 31, 1) >>
MalformedText == << Punct("{"), Str("not json") >>
ImportTexts == {MalformedText, JSONstringify(FileLayout)}

ClickUuids == {"u1", "s1", "f2"}

NoDef == Def("", "", 0, 0, FALSE, <<>>)
\* The record kept in `last`: the handler, what it alerted, its arguments
\* and locals, and the length of the layout it found.
Ran(op, alert) ==
    [op |-> op, alert |-> alert, plant |-> NoDef, dropX |-> 0, dropY |-> 0,
     arg |-> "", text |-> NoItem, len |-> 0]

(***************************************************************************)
(* Init: the state after `export default function App()` has rendered for  *)
(* the first time and before its effects have run.                         *)
(***************************************************************************)
Init ==
    /\ plants = <<>>
    /\ layout = <<>>
    /\ showSettings = FALSE
    /\ garden_layout \in SavedTexts
    /\ gh_token \in {Null, "ghp_x"}
    /\ mounted = FALSE
    /\ effectPending = FALSE
    /\ fetchState = "idle"
    /\ saves = <<>>
    /\ remote = [content |-> RemoteCatalog, sha |-> 0]
    /\ readers = {}
    /\ nextUuid = 0
    /\ last = Ran("render", "")

(***************************************************************************)
(* The effects of the first commit, in the order they are declared:        *)
(* lines 71-76 issue the fetch, lines 79-82 read the saved layout, lines   *)
(* 84-86 write the layout of this render (the empty one).  setLayout       *)
(* schedules a render whose [layout] effect is then pending.               *)
(***************************************************************************)
Mount ==
    /\ ~mounted
    /\ mounted' = TRUE
    /\ fetchState' = "pending"
    /\ LET saved == garden_layout IN
       /\ layout' = IF TruthyText(saved) THEN JSONparse(saved).val ELSE layout
       /\ effectPending' = TruthyText(saved)
    /\ garden_layout' = JSONstringify(layout)
    /\ last' = [Ran("mount", "") EXCEPT !.text = garden_layout]
    /\ UNCHANGED <<plants, showSettings, gh_token, saves, remote, readers, nextUuid>>

\* Mutant: the effect declared with [] for its dependencies, so that it
\* writes on mount only.
SaveEffectOnMountOnly ==
    /\ mounted
    /\ effectPending
    /\ effectPending' = FALSE
    /\ last' = Ran("saveEffect", "")
    /\ UNCHANGED <<plants, layout, showSettings, garden_layout, gh_token, mounted,
                   fetchState, saves, remote, readers, nextUuid>>

\* useEffect(() => localStorage.setItem(...), [layout]) after a render
SaveEffect ==
    /\ mounted
    /\ effectPending
    /\ garden_layout' = JSONstringify(layout)
    /\ effectPending' = FALSE
    /\ last' = Ran("saveEffect", "")
    /\ UNCHANGED <<plants, layout, showSettings, gh_token, mounted, fetchState,
                   saves, remote, readers, nextUuid>>

\* .then(res => res.json()).then(data => setPlants(data))
FetchResolve ==
    /\ fetchState = "pending"
    /\ fetchState' = "done"
    /\ plants' = BootCatalog
    /\ last' = Ran("fetchResolve", "")
    /\ UNCHANGED <<layout, showSettings, garden_layout, gh_token, mounted,
                   effectPending, saves, remote, readers, nextUuid>>

\* .catch(err => console.error("Could not load plants", err))
FetchReject ==
    /\ fetchState = "pending"
    /\ fetchState' = "failed"
    /\ last' = Ran("fetchReject", "")
    /\ UNCHANGED <<plants, layout, showSettings, garden_layout, gh_token, mounted,
                   effectPending, saves, remote, readers, nextUuid>>

(***************************************************************************)
(* handleDragEnd, lines 89-127.  The dragged definition is one the sidebar *)
(* renders, so one of `plants`.  React runs the effects of a commit before *)
(* it handles the next update, so a handler that sets the layout runs with *)
(* no [layout] effect of an earlier render outstanding.                    *)
(***************************************************************************)
handleDragEnd(i, dropX, dropY, over) ==
    /\ mounted
    /\ ~effectPending
    /\ i \in 1..Len(plants)
    /\ nextUuid < MaxDrops
    /\ IF ~over
       THEN /\ last' = Ran("dragCancel", "")
            /\ UNCHANGED <<layout, effectPending, nextUuid>>
       ELSE /\ nextUuid' = nextUuid + 1
            /\ layout' = Append(layout,
                    NewPlacedPlant(layout, plants[i], dropX, dropY, UuidOf(nextUuid + 1)))
            /\ effectPending' = TRUE
            /\ last' = [Ran("drop", "") EXCEPT !.plant = plants[i], !.dropX = dropX,
                                              !.dropY = dropY, !.len = Len(layout)]
    /\ UNCHANGED <<plants, showSettings, garden_layout, gh_token, mounted,
                   fetchState, saves, remote, readers>>

\* removePlant, lines 256-258
removePlant(uuid) ==
    /\ mounted
    /\ ~effectPending
    /\ layout' = RemoveFilter(layout, uuid)
    /\ effectPending' = TRUE
    /\ last' = [Ran("remove", "") EXCEPT !.arg = uuid, !.len = Len(layout)]
    /\ UNCHANGED <<plants, showSettings, garden_layout, gh_token, mounted,
                   fetchState, saves, remote, readers, nextUuid>>

\* handleImport, lines 140-153, up to reader.readAsText(file)
handleImport(text) ==
    /\ mounted
    /\ Cardinality(readers) < MaxReaders
    /\ text \notin readers
    /\ readers' = readers \cup {text}
    /\ last' = Ran("import", "")
    /\ UNCHANGED <<plants, layout, showSettings, garden_layout, gh_token, mounted,
                   effectPending, fetchState, saves, remote, nextUuid>>

\* reader.onload, lines 143-151
readerOnload(text) ==
    /\ text \in readers
    /\ ~effectPending
    /\ readers' = readers \ {text}
    /\ LET data == JSONparse(text) IN
       IF data.ok
       THEN /\ layout' = data.val
            /\ effectPending' = TRUE
            /\ last' = [Ran("onload", "") EXCEPT !.text = text, !.len = Len(layout)]
       ELSE /\ last' = [Ran("onload", "Invalid JSON file") EXCEPT
                            !.text = text, !.len = Len(layout)]
            /\ UNCHANGED <<layout, effectPending>>
    /\ UNCHANGED <<plants, showSettings, garden_layout, gh_token, mounted,
                   fetchState, saves, remote, nextUuid>>

(***************************************************************************)
(* The settings panel, lines 195-208.                                      *)
(***************************************************************************)
toggleSettings ==
    /\ mounted
    /\ showSettings' = ~showSettings
    /\ last' = Ran("toggleSettings", "")
    /\ UNCHANGED <<plants, layout, garden_layout, gh_token, mounted, effectPending,
                   fetchState, saves, remote, readers, nextUuid>>

\* onChange={(e) => localStorage.setItem('gh_token', e.target.value)}
TokenInputs == {"", "ghp_x"}

setToken(value) ==
    /\ mounted
    /\ showSettings
    /\ gh_token' = value
    /\ last' = [Ran("setToken", "") EXCEPT !.arg = value]
    /\ UNCHANGED <<plants, layout, showSettings, garden_layout, mounted, effectPending,
                   fetchState, saves, remote, readers, nextUuid>>

(***************************************************************************)
(* handleAddPlant, lines 156-184, and savePlantToGithub.  A call that gets *)
(* past the two prompts runs savePlantToGithub up to its first await (the  *)
(* GET of line 8) and is then suspended; `plants` is the catalog of the    *)
(* render whose button was clicked, which line 181 spreads later.          *)
(***************************************************************************)
NameInputs == {Null, "Kale"}
SpacingInputs == {"12"}

\* Number(prompt("Spacing (inches):", "12"))
Number(s) ==
    CASE s = "12" -> 12
      [] s = "5" -> 5
      [] OTHER -> 0

\* const newPlant = {...}, lines 168-176
NewPlant(name, spacing) == Def(ToLowerCase(name), name, spacing, 2, TRUE, NewPlantIcon)

Call(newPlant, closure, token) ==
    [newPlant |-> newPlant, plants |-> closure, token |-> token, pc |-> "get",
     sha |-> 0, content |-> <<>>, success |-> "pending", gets |-> 1, puts |-> 0]

handleAddPlant(name, spacing) ==
    /\ mounted
    /\ Len(saves) < MaxSaves
    /\ LET token == gh_token IN
       IF ~Truthy(token)
       THEN /\ showSettings' = TRUE
            /\ saves' = saves
            /\ last' = Ran("addPlantNoToken", "")
       ELSE IF ~Truthy(name)
       THEN /\ last' = Ran("addPlantNoName", "")
            /\ UNCHANGED <<showSettings, saves>>
       ELSE /\ saves' = Append(saves, Call(NewPlant(name, Number(spacing)), plants, token))
            /\ last' = [Ran("addPlant", "") EXCEPT !.arg = name]
            /\ UNCHANGED showSettings
    /\ UNCHANGED <<plants, layout, garden_layout, gh_token, mounted, effectPending,
                   fetchState, remote, readers, nextUuid>>

\* Mutant: an encoder that takes any character (a UTF-8 safe base64).
BtoaTakesAll(defs) == FALSE

\* btoa(string) throws InvalidCharacterError when a character is above U+00FF.
\* JSON.stringify writes the characters of an icon as they are; the ids and
\* names of the model are ASCII.
BtoaThrows(defs) == \E k \in 1..Len(defs) : \E c \in Range(defs[k].icon) : c > 255

GetOutcomes == {"rejected", "notOk", "bodyNotJson", "contentNotJson", "ok"}
PutOutcomes == {"rejected", "notOk", "ok"}

ErrorAlert(message) ==
    CASE message = "notOk" -> "Error saving to GitHub: Failed to fetch current plants"
      [] message = "putNotOk" -> "Error saving to GitHub: GitHub API Error"
      [] message = "btoa" -> "Error saving to GitHub: InvalidCharacterError"
      [] OTHER -> "Error saving to GitHub: (the browser's message)"

\* Mutant: the catalog updated whatever savePlantToGithub returned.
FailedButAdded(i, message) ==
    /\ saves' = [saves EXCEPT ![i].pc = "done", ![i].success = "false"]
    /\ last' = [Ran("saveFailed", ErrorAlert(message)) EXCEPT !.arg = message]
    /\ plants' = Append(saves[i].plants, saves[i].newPlant)
    /\ UNCHANGED remote

\* catch (err) { console.error(err); alert(...); return false; } and, back in
\* handleAddPlant, `if (success)` not taken.
Failed(i, message) ==
    /\ saves' = [saves EXCEPT ![i].pc = "done", ![i].success = "false"]
    /\ last' = [Ran("saveFailed", ErrorAlert(message)) EXCEPT !.arg = message]
    /\ UNCHANGED <<plants, remote>>

\* Lines 12-34 once the GET of line 8 has settled.
GetSettled(i, outcome) ==
    LET call == saves[i]
        decoded == Append(remote.content, call.newPlant)   \* plants.push(newPlant)
    IN  IF outcome # "ok" THEN Failed(i, outcome)
        ELSE IF BtoaThrows(decoded) THEN Failed(i, "btoa")
        ELSE /\ saves' = [saves EXCEPT ![i].pc = "put", ![i].sha = remote.sha,
                                       ![i].content = decoded, ![i].puts = @ + 1]
             /\ last' = Ran("savePut", "")
             /\ UNCHANGED <<plants, remote>>

\* Lines 36-37 once the PUT of line 23 has settled, and lines 180-183.
\* GitHub accepts the update only with the sha of the current blob.
PutSettled(i, outcome) ==
    LET call == saves[i] IN
    IF outcome = "ok" /\ call.sha = remote.sha
    THEN /\ remote' = [content |-> call.content, sha |-> remote.sha + 1]
         /\ saves' = [saves EXCEPT ![i].pc = "done", ![i].success = "true"]
         /\ plants' = Append(call.plants, call.newPlant)
         /\ last' = Ran("saveDone", "Plant added! GitHub pages will update in ~1 min.")
    ELSE Failed(i, IF outcome = "rejected" THEN "rejected" ELSE "putNotOk")

\* savePlantToGithub resumes after an await.  With line 20 as written the
\* PUT is never issued: plants.push(newPlant) puts the icon of line 175 in
\* the text that btoa is given.
savePlantToGithub(i) ==
    /\ i \in 1..Len(saves)
    /\ saves[i].pc # "done"
    /\ IF saves[i].pc = "get"
       THEN \E outcome \in GetOutcomes : GetSettled(i, outcome)
       ELSE \E outcome \in PutOutcomes : PutSettled(i, outcome)
    /\ UNCHANGED <<layout, showSettings, garden_layout, gh_token, mounted,
                   effectPending, fetchState, readers, nextUuid>>

\* Somebody else commits to public/plants.json: the blob's sha changes.
remoteCommit ==
    /\ remote.sha < MaxCommits
    /\ remote' = [remote EXCEPT !.sha = @ + 1]
    /\ last' = Ran("remoteCommit", "")
    /\ UNCHANGED <<plants, layout, showSettings, garden_layout, gh_token, mounted,
                   effectPending, fetchState, saves, readers, nextUuid>>

LayoutNext ==
    \/ Mount
    \/ SaveEffect
    \/ FetchResolve
    \/ FetchReject
    \/ \E i \in 1..Len(BootCatalog), dropX \in DropXs, dropY \in DropYs, over \in BOOLEAN :
          handleDragEnd(i, dropX, dropY, over)
    \/ \E uuid \in ClickUuids : removePlant(uuid)
    \/ \E text \in ImportTexts : handleImport(text)
    \/ \E text \in ImportTexts : readerOnload(text)

\* The layout side on its own (see CatalogSpec).
LayoutInit == Init /\ gh_token = Null

LayoutSpec == LayoutInit /\ [][LayoutNext]_vars

CatalogNext ==
    \/ Mount
    \/ FetchResolve
    \/ FetchReject
    \/ toggleSettings
    \/ \E value \in TokenInputs : setToken(value)
    \/ \E name \in NameInputs, spacing \in SpacingInputs : handleAddPlant(name, spacing)
    \/ \E i \in 1..MaxSaves : savePlantToGithub(i)
    \/ remoteCommit

CatalogInit == Init /\ garden_layout = NoItem

\* The catalog side on its own.  The layout handlers write none of its
\* variables and read only `plants`; the catalog handlers read and write
\* none of the layout's.  CatalogOnlyBoot is what LayoutSpec relies on: the
\* sidebar offers the definitions of /plants.json or none.
CatalogSpec == CatalogInit /\ [][CatalogNext]_vars

CatalogOnlyBoot == plants \in {<<>>, BootCatalog}

Next == LayoutNext \/ CatalogNext

Spec == Init /\ [][Next]_vars

(***************************************************************************)
(* The claims.                                                             *)
(***************************************************************************)
\* max(0, round(px / 10)) stated without the model's arithmetic: the inch
\* mark n with n - 1/2 <= px / 10 < n + 1/2, not below 0, in half inches.
NearestInch(px) == CHOOSE n \in -100..100 : 10 * n - 5 <= px /\ px < 10 * n + 5
ClampedInches(px) == IF NearestInch(px) < 0 THEN 0 ELSE 2 * NearestInch(px)

Placed == layout[Len(layout)]
DroppedNow == last.op = "drop" /\ Len(layout) = last.len + 1

\* C1: when a plant with stagger = true is placed and its lane is 1, the
\* stored x is inchesX + spacing/2 if the layout it was dropped on holds an
\* entry of lane 0 with |entry.x - inchesX| < spacing, and inchesX otherwise;
\* the offset is applied once however many entries match.
C1_StaggerTrigger ==
    [][ (last'.op = "drop" /\ last'.plant.stagger /\ layout'[Len(layout')].lane = 1) =>
          LET inchesX == ClampedInches(last'.dropX)
              spacing == last'.plant.spacing
              near == \E k \in 1..Len(layout) :
                         /\ layout[k].lane = 0
                         /\ layout[k].x - inchesX < 2 * spacing
                         /\ inchesX - layout[k].x < 2 * spacing
          IN  layout'[Len(layout')].x = IF near THEN inchesX + spacing ELSE inchesX ]_vars

\* C1's case: tomato (spacing 12) dropped at 15 in, lane 1, below two lane-0
\* entries within 12 in, one of them at 10 in: stored at 21 in.
C1_Witness ==
    /\ DroppedNow
    /\ last.plant.id = "tomato"
    /\ Placed.lane = 1
    /\ Placed.x = 42
    /\ Cardinality({k \in 1..last.len : layout[k].lane = 0 /\ layout[k].x \in {20, 30}}) = 2

\* C2: the entry appended by a drop has an x that is a non-negative integer
\* (here: an even number of half inches), also after the stagger offset.
C2_XNonNegativeInteger ==
    (DroppedNow /\ last.plant.spacing > 0) => (Placed.x >= 0 /\ Placed.x % 2 = 0)

\* C3: every entry a drop created for a definition with one row has lane 0,
\* wherever it was dropped vertically.
C3_SingleRowLaneZero ==
    \A k \in 1..Len(layout) :
        ( /\ layout[k].uuid \in {UuidOf(n) : n \in 1..nextUuid}
          /\ \E p \in Range(plants) : p.id = layout[k].plantId /\ p.rows = 1 )
        => layout[k].lane = 0

\* C3's case: a one-row plant dropped in the bottom half of the bed.
C3_Witness ==
    /\ DroppedNow
    /\ last.plant.rows = 1
    /\ 2 * last.dropY >= bedHeight
    /\ Placed.plantId = last.plant.id
    /\ Placed.lane = 0

\* C4: when the text read for an import is not valid JSON, the user is
\* alerted and the layout, and its cached copy, stay as they were.
C4_MalformedImportRejected ==
    [][ (last'.op = "onload" /\ last'.text = MalformedText) =>
          /\ last'.alert = "Invalid JSON file"
          /\ layout' = layout
          /\ garden_layout' = garden_layout
          /\ effectPending' = effectPending ]_vars

\* C4's case: a malformed file was read while the layout held entries.
C4_Witness ==
    /\ last.op = "onload"
    /\ last.text = MalformedText
    /\ last.alert = "Invalid JSON file"
    /\ Len(layout) = 2
    /\ last.len = 2

\* C5: a call of savePlantToGithub that ends in failure leaves the catalog
\* as it was and alerts the user; no step of a call changes the catalog but
\* the one that ends it in success, which follows an accepted write; a call
\* issues at most one read and one write (no retry).
C5_AppendAtomic ==
    [][ \A i \in 1..Len(saves) :
          /\ (saves'[i] # saves[i] /\ saves'[i].success # "true") => plants' = plants
          /\ (saves[i].pc # "done" /\ saves'[i].success = "false") =>
                /\ saves'[i].pc = "done"
                /\ last'.op = "saveFailed"
                /\ last'.alert # ""
          /\ (saves[i].pc # "done" /\ saves'[i].success = "true") =>
                /\ saves[i].pc = "put"
                /\ saves[i].sha = remote.sha
                /\ saves'[i].newPlant \in Range(remote'.content)
          /\ (plants' # plants /\ saves'[i].newPlant \in Range(plants') \ Range(plants)) =>
                \E j \in 1..Len(saves) : saves[j].pc # "done" /\ saves'[j].success = "true"
          /\ saves'[i].gets <= 1
          /\ saves'[i].puts <= 1 ]_vars

\* C5's case: a call has failed on a read that was not ok, while the
\* catalog held the fetched definitions.
C5_Witness ==
    /\ last.op = "saveFailed"
    /\ last.arg = "notOk"
    /\ plants = BootCatalog
    /\ \E i \in 1..Len(saves) : saves[i].success = "false" /\ saves[i].plants = BootCatalog

C7_MissingCredential ==
    [][ ( /\ last'.op \in {"addPlantNoToken", "addPlantNoName", "addPlant"}
          /\ gh_token \in {Null, ""} ) =>
          /\ saves' = saves
          /\ remote' = remote
          /\ plants' = plants
          /\ showSettings' = TRUE ]_vars

\* C7's case: the click came with the credential cleared to "" in the panel.
C7_Witness ==
    /\ last.op = "addPlantNoToken"
    /\ gh_token = ""
    /\ showSettings
    /\ plants = BootCatalog
    /\ saves = <<>>

\* C8: every change of the layout schedules the write of garden_layout, so
\* that with no write pending the item is the JSON text of the layout; and
\* the layout restored at startup is the one the item held, which the write
\* of the initial empty layout does not lose.
C8_LayoutPersisted ==
    /\ [](mounted /\ ~effectPending => garden_layout = JSONstringify(layout))
    /\ []((last.op = "mount" /\ last.text # NoItem) =>
             effectPending /\ JSONstringify(layout) = last.text)
    /\ [][ layout' # layout => effectPending' ]_vars

\* C8's case: the saved layout was restored and written back, nothing else done.
C8_Witness ==
    /\ last.op = "saveEffect"
    /\ nextUuid = 0
    /\ layout = SavedLayout
    /\ garden_layout = JSONstringify(SavedLayout)
    /\ ~effectPending

\* C9: removing a uuid no entry has leaves the layout equal; removing a uuid
\* exactly one entry has gives the layout without that entry, the others
\* unchanged and in their order.
C9_RemovePureFilter ==
    [][ last'.op = "remove" =>
          LET hits == {k \in 1..Len(layout) : layout[k].uuid = last'.arg} IN
          /\ hits = {} => layout' = layout
          /\ Cardinality(hits) = 1 =>
                LET k == CHOOSE h \in hits : TRUE IN
                layout' = SubSeq(layout, 1, k - 1) \o SubSeq(layout, k + 1, Len(layout)) ]_vars

\* C9's case: an entry that was not the last one was removed from three.
C9_Witness ==
    /\ last.op = "remove"
    /\ last.len = 3
    /\ Len(layout) = 2
    /\ layout[2].uuid = "u2"
    /\ last.arg # "u2"

\* C10: for a definition with one row the stored x is max(0, round(relX/10)),
\* with no spacing/2 shift, even with stagger = true and a drop in the bottom
\* half below a lane-0 neighbour.
C10_NoStaggerForSingleRow ==
    (DroppedNow /\ last.plant.rows = 1) => Placed.x = ClampedInches(last.dropX)

====
